---- MODULE Spec2Model ----
(***************************************************************************)
(* The accelerometer screen of AccelerometerApp (app/(tabs)/accelerometer  *)
(* .tsx): the recording lifecycle (startRecording, the sensor listener,    *)
(* stopRecording and its timers) and the analysis it runs on a recording   *)
(* (processData, performFFT, applyHannWindow, getDominantFrequencies).     *)
(*                                                                         *)
(* Numbers.  A JavaScript number is modelled as an exact rational or one   *)
(* of the IEEE specials NaN, +Infinity, -Infinity; rounding is not         *)
(* modelled.  The fft-js library is not part of the repository: a call of  *)
(* it either returns the coefficients of its input, in the format of its   *)
(* input, or throws.  The value of a Hann factor strictly inside the       *)
(* window and the modulus of a coefficient of a series that is not all     *)
(* zero are irrational in general: they are kept as terms that name what   *)
(* was computed ("hann", "mag").                                           *)
(***************************************************************************)
EXTENDS Integers, Sequences, FiniteSets, TLC

(***************************************************************************)
(* Bounds of the model.                                                    *)
(***************************************************************************)
\* longest recording buffer the lifecycle collects
MaxSamples == 2
\* longest buffer / series drawn as input of the analysis functions
MaxLen == 6
\* longest magnitude spectrum drawn as input of getDominantFrequencies
MaxBins == 5
\* presses of the start, restart and interval buttons in one run of the
\* lifecycle
MaxPresses == 2

(***************************************************************************)
(* JavaScript numbers.                                                     *)
(***************************************************************************)
Abs(i) == IF i < 0 THEN -i ELSE i

RECURSIVE GCD(_, _)
GCD(a, b) == IF b = 0 THEN a ELSE GCD(b, a % b)

NaN == [k |-> "nan", n |-> 0, d |-> 0]

Infinity == [k |-> "inf", n |-> 1, d |-> 0]

NegInfinity == [k |-> "inf", n |-> -1, d |-> 0]

\* the rational n/d (d # 0) in lowest terms with a positive denominator
Fin(n, d) ==
  LET g == GCD(Abs(n), Abs(d))
      s == IF d < 0 THEN -1 ELSE 1
  IN  [k |-> "fin", n |-> (s * n) \div g, d |-> (s * d) \div g]

Num(i) == Fin(i, 1)

Sign(a) == IF a.n > 0 THEN 1 ELSE IF a.n < 0 THEN -1 ELSE 0

isNaN(a) == a.k = "nan"

isFinite(a) == a.k \notin {"nan", "inf"}

\* a * b
Mul(a, b) ==
  IF isNaN(a) \/ isNaN(b) THEN NaN
  ELSE IF a.k = "inf" \/ b.k = "inf"
       THEN IF Sign(a) * Sign(b) = 0 THEN NaN
            ELSE IF Sign(a) * Sign(b) > 0 THEN Infinity ELSE NegInfinity
       ELSE Fin(a.n * b.n, a.d * b.d)

\* a / b, a zero divisor being +0
Div(a, b) ==
  IF isNaN(a) \/ isNaN(b) THEN NaN
  ELSE IF a.k = "inf"
       THEN IF b.k = "inf" THEN NaN
            ELSE IF Sign(a) * (IF Sign(b) < 0 THEN -1 ELSE 1) > 0
                 THEN Infinity ELSE NegInfinity
       ELSE IF b.k = "inf" THEN Num(0)
       ELSE IF b.n = 0
            THEN IF a.n = 0 THEN NaN
                 ELSE IF a.n > 0 THEN Infinity ELSE NegInfinity
            ELSE Fin(a.n * b.d, a.d * b.n)

\* a - b of two numbers that are not NaN: negative, zero or positive
Cmp(a, b) ==
  IF a.k = "inf" \/ b.k = "inf"
  THEN (IF a.k = "inf" THEN Sign(a) ELSE 0) - (IF b.k = "inf" THEN Sign(b) ELSE 0)
  ELSE a.n * b.d - b.n * a.d

\* Math.ceil(a / b) for integers a >= 0, b > 0; also the number of passes of
\* for (i = 0; i < a / b; i++)
CeilDiv(a, b) == (a + b - 1) \div b

(***************************************************************************)
(* performFFT and applyHannWindow.  A series is a sequence of integers     *)
(* (the samples of one axis); index i of the code is element i + 1 here.   *)
(***************************************************************************)
Axes == {"x", "y", "z"}

\* What the two calls of fftLibrary.fft do: "pairs", the first call returns
\* (one [re, im] pair per input pair); "flat", the first call throws and the
\* second returns (alternating re, im values, two per input point); "throw",
\* the second call throws too and the outer catch runs.
FFTOutcomes == {"pairs", "flat", "throw"}

\* Math.ceil(Math.log2(L)) for L >= 1
RECURSIVE CeilLog2(_)
CeilLog2(L) == IF L <= 1 THEN 0 ELSE 1 + CeilLog2((L + 1) \div 2)

\* Math.floor in the place of Math.ceil
nextPow2Floor(L) ==
  IF L = 0 THEN 0
  ELSE IF 2 ^ CeilLog2(L) = L THEN L ELSE 2 ^ (CeilLog2(L) - 1)

\* Math.pow(2, Math.ceil(Math.log2(L))); log2(0) is -Infinity and 2^-Infinity is 0
nextPow2(L) == IF L = 0 THEN 0 ELSE 2 ^ CeilLog2(L)

\* let paddedData = [...timeData]; while (paddedData.length < nextPow2) push(0)
paddedData(timeData) ==
  LET P == nextPow2(Len(timeData))
  IN  IF Len(timeData) < P
      THEN timeData \o [i \in 1..(P - Len(timeData)) |-> 0]
      ELSE timeData

\* value * 0.5 * (1 - cos(2 pi index / (N - 1))): NaN when N = 1 (0 / 0), the
\* factor is 0 at both ends of the window and in (0, 1] strictly inside it
HannTimes(value, index, N) ==
  IF N = 1 THEN NaN
  ELSE IF value = 0 \/ index = 0 \/ index = N - 1 THEN Num(0)
  ELSE [k |-> "hann", value |-> value, index |-> index, N |-> N]

applyHannWindow(data) ==
  [i \in 1..Len(data) |-> HannTimes(data[i], i - 1, Len(data))]

\* sqrt(re^2 + im^2) / windowedData.length of coefficient i of the transform of
\* windowed: NaN when an input is NaN, 0 when every input is 0
Magnitude(windowed, i) ==
  IF \E j \in 1..Len(windowed) : isNaN(windowed[j]) THEN NaN
  ELSE IF \A j \in 1..Len(windowed) : windowed[j] = Num(0) THEN Num(0)
  ELSE [k |-> "mag", bin |-> i, of |-> windowed]

\* the length of the value fft returns
fftResultLength(windowed, outcome) ==
  IF outcome = "pairs" THEN Len(windowed) ELSE 2 * Len(windowed)

\* the loops at lines 380 and 388
magnitudes(windowed, outcome) ==
  LET M == IF outcome = "pairs"
           THEN CeilDiv(fftResultLength(windowed, outcome), 2)
           ELSE CeilDiv(fftResultLength(windowed, outcome), 4)
  IN  [i \in 1..M |-> Magnitude(windowed, i - 1)]

\* the catch of performFFT: Array(Math.ceil(timeData.length / 2)).fill(0)
fallbackSpectrum(timeData) ==
  [i \in 1..CeilDiv(Len(timeData), 2) |-> Num(0)]

performFFT(timeData, outcome) ==
  IF outcome = "throw"
  THEN fallbackSpectrum(timeData)
  ELSE magnitudes(applyHannWindow(paddedData(timeData)), outcome)

(***************************************************************************)
(* processData.  A sample is [x, y, z, timestamp]; data is a sequence of   *)
(* samples; outcomes gives the library's behaviour for each axis.          *)
(***************************************************************************)
\* the intervals between the samples, data.length - 1, over the duration
samplingRateIntervals(data) ==
  Div(Num(Len(data) - 1),
      Div(Num(data[Len(data)].timestamp - data[1].timestamp), Num(1000)))

\* data.length / ((lastTimestamp - firstTimestamp) / 1000)
samplingRate(data) ==
  Div(Num(Len(data)),
      Div(Num(data[Len(data)].timestamp - data[1].timestamp), Num(1000)))

axisData(data, a) == [i \in 1..Len(data) |-> data[i][a]]

\* the padded length (twice fftX.length) in the place of fftX.length
frequencyBinsOfPadded(fftX, rate) ==
  [i \in 1..Len(fftX) |-> Div(Mul(Num(i - 1), rate), Num(Len(fftX) * 4))]

\* Array.from({ length: fftX.length }, (_, i) => (i * samplingRate) / (fftX.length * 2))
frequencyBins(fftX, rate) ==
  [i \in 1..Len(fftX) |-> Div(Mul(Num(i - 1), rate), Num(Len(fftX) * 2))]

tooFewBelowThree(data) == Len(data) < 3

\* only the empty buffer is too short
tooFewBelowOne(data) == Len(data) < 1

\* if (data.length < 4)
tooFew(data) == Len(data) < 4

\* the lengths of the arguments of the applyHannWindow calls (line 351) of
\* the three performFFT calls of lines 291-293
windowLengths(data) == {Len(paddedData(axisData(data, a))) : a \in Axes}

\* processData without its finally block
withoutFinally == <<>>

\* finally { setIsProcessing(false) }, lines 324-326
finally == <<FALSE>>

\* What one call of processData does: whether it ran past the length check,
\* the sampling rate it computed, the performFFT calls it made, the lengths
\* it applied the window to, the value it passed to setFftResults
\* (published), if any, and its setIsProcessing calls in order.
processData(data, outcomes) ==
  IF tooFew(data)
  THEN [analysed |-> FALSE, debugInfo |-> "Not enough data points for FFT",
        fftCalls |-> {}, windowed |-> {}, published |-> FALSE,
        setIsProcessing |-> <<TRUE, FALSE>> \o finally]
  ELSE LET rate == samplingRate(data)
           fft  == [a \in Axes |-> performFFT(axisData(data, a), outcomes[a])]
           bins == frequencyBins(fft["x"], rate)
       IN  [analysed |-> TRUE, debugInfo |-> "Samples, Duration, Rate",
            rate |-> rate, fftCalls |-> Axes, windowed |-> windowLengths(data),
            published |-> TRUE, setIsProcessing |-> <<TRUE>> \o finally,
            fftResults |-> [a \in Axes |->
                              [frequencies |-> bins, magnitudes |-> fft[a]]]]

(***************************************************************************)
(* getDominantFrequencies.                                                 *)
(***************************************************************************)
\* isNaN(v) || !isFinite(v) ? 0 : v
Clean(v) == IF isNaN(v) \/ ~isFinite(v) THEN Num(0) ELSE v

\* frequencies[j] of the code (undefined past the end, and isNaN(undefined))
FrequencyAt(frequencies, j) ==
  IF j + 1 \in DOMAIN frequencies THEN Clean(frequencies[j + 1]) ELSE Num(0)

\* without the slice(1): the entry of index 0 is kept
indexedMagnitudesWithDC(frequencies, mags) ==
  [i \in 1..Len(mags) |->
     [index |-> i - 1, magnitude |-> Clean(mags[i]),
      frequency |-> FrequencyAt(frequencies, i - 1)]]

\* magnitudes.slice(1).map(...): one entry for each index 1 .. length - 1
indexedMagnitudes(frequencies, mags) ==
  [i \in 1..(Len(mags) - 1) |->
     [index |-> i, magnitude |-> Clean(mags[i + 1]),
      frequency |-> FrequencyAt(frequencies, i)]]

isPositive(item) == Cmp(item.magnitude, Num(0)) > 0

\* the place of item in a list sorted by (a, b) => b.magnitude - a.magnitude,
\* after the entries it does not precede (Array.prototype.sort is stable)
RECURSIVE InsertSorted(_, _)
InsertSorted(sorted, item) ==
  IF sorted = <<>> THEN <<item>>
  ELSE IF Cmp(item.magnitude, Head(sorted).magnitude) > 0
       THEN <<item>> \o sorted
       ELSE <<Head(sorted)>> \o InsertSorted(Tail(sorted), item)

RECURSIVE SortByMagnitude(_)
SortByMagnitude(items) ==
  IF items = <<>> THEN <<>>
  ELSE InsertSorted(SortByMagnitude(SubSeq(items, 1, Len(items) - 1)),
                    items[Len(items)])

\* slice(0, count)
Slice0(s, count) == SubSeq(s, 1, IF count < Len(s) THEN count ELSE Len(s))

getDominantFrequencies(frequencies, mags, count) ==
  LET valid == SelectSeq(indexedMagnitudes(frequencies, mags), isPositive)
  IN  IF Len(valid) = 0
      THEN [i \in 1..count |-> [frequency |-> Num(0), magnitude |-> Num(0)]]
      ELSE Slice0(SortByMagnitude(valid), count)

(***************************************************************************)
(* The component.  null is the empty set and a value v that may be null is *)
(* {v}.                                                                    *)
(***************************************************************************)
VARIABLES
  isRecording,        \* useState, line 32
  subscription,       \* useState, line 27: null or the id of a listener
  recordedData,       \* useState, line 33
  recordingTime,      \* useState, line 34, in milliseconds
  fftResults,         \* useState, line 35: null or the published result
  isProcessing,       \* useState, line 40
  debugInfo,          \* useState, line 41 (which message it holds)
  recordingRef,       \* useRef, line 43: null or the id of a 10 s timer
  dataCollectionRef,  \* useRef, line 44: the recording buffer
  startTimeRef,       \* useRef, line 45: 0 is null
  listeners,          \* the listeners registered with Accelerometer
  timers,             \* the setTimeout callbacks not yet run
  starts,             \* startRecording calls so far
  now,                \* Date.now()
  alert,              \* the last Alert.alert shown
  lastRun,            \* what the last stopRecording did (failed: the axes
                      \* whose transform failed)
  processed,          \* processData calls since the last startRecording
  restarts,           \* presses of "Restart Accelerometer" and of the
                      \* interval buttons so far
  fftCall,            \* a call of performFFT: its argument and its result
  shown               \* the dominant frequencies the screen shows

vars == <<isRecording, subscription, recordedData, recordingTime, fftResults,
          isProcessing, debugInfo, recordingRef, dataCollectionRef,
          startTimeRef, listeners, timers, starts, now, alert, lastRun,
          processed, restarts, fftCall, shown>>

null == {}

Some(v) == {v}

The(s) == CHOOSE v \in s : TRUE

\* the readings the sensor delivers
Readings == {[x |-> 0, y |-> 0, z |-> 0], [x |-> 1, y |-> 0, z |-> 2]}

\* the reading the sensor delivers in a run of the lifecycle
Delivered == {[x |-> 1, y |-> 0, z |-> 2]}

\* the listener _subscribe registers on mount; a recording's listener has the
\* number of its startRecording call
UiListener == 0

NotRun == [ran |-> FALSE, recording |-> FALSE, n |-> 0, analysed |-> FALSE,
           fftCalls |-> {}, windowed |-> {}, published |-> FALSE,
           rate |-> null, failed |-> null]

\* the state after the first render and its effects (lines 49-56)
Init ==
  /\ isRecording = FALSE
  /\ subscription = Some(UiListener)
  /\ recordedData = <<>>
  /\ recordingTime = 0
  /\ fftResults = null
  /\ isProcessing = FALSE
  /\ debugInfo = "Initializing..."
  /\ recordingRef = null
  /\ dataCollectionRef = <<>>
  /\ startTimeRef = 0
  /\ listeners = {UiListener}
  /\ timers = {}
  /\ starts = 0
  /\ now = 1000
  /\ alert = "none"
  /\ lastRun = NotRun
  /\ processed = 0
  /\ restarts = 0
  /\ fftCall = null
  /\ shown = null

\* time passes until a pending timer is due
Tick(t) ==
  /\ t \in timers /\ now < t.due
  /\ now' = t.due
  /\ UNCHANGED <<isRecording, subscription, recordedData, recordingTime,
                 fftResults, isProcessing, debugInfo, recordingRef,
                 dataCollectionRef, startTimeRef, listeners, timers, starts,
                 alert, lastRun, processed, restarts, fftCall, shown>>

\* startRecording, lines 149-193, up to the setTimeout
StartRecording ==
  /\ ~isRecording /\ ~isProcessing
  /\ starts + restarts < MaxPresses
  /\ dataCollectionRef' = <<>>
  /\ recordedData' = <<>>
  /\ fftResults' = null
  /\ listeners' = listeners \ subscription
  /\ subscription' = null
  /\ timers' = timers \cup {[kind |-> "subscribe", id |-> starts + 1, due |-> now + 100]}
  /\ starts' = starts + 1
  /\ processed' = 0
  /\ UNCHANGED <<isRecording, recordingTime, isProcessing, debugInfo,
                 recordingRef, startTimeRef, now, alert, lastRun, restarts,
                 fftCall, shown>>

\* the callback of startRecording's setTimeout, lines 162-192
SubscribeTimerFires(t) ==
  /\ t \in timers /\ t.kind = "subscribe" /\ now >= t.due
  /\ listeners' = listeners \cup {t.id}
  /\ subscription' = Some(t.id)
  /\ isRecording' = TRUE
  /\ startTimeRef' = now
  /\ recordingRef' = Some(t.id)
  /\ timers' = (timers \ {t}) \cup {[kind |-> "stop", id |-> t.id, due |-> now + 10000]}
  /\ UNCHANGED <<recordedData, recordingTime, fftResults, isProcessing,
                 debugInfo, dataCollectionRef, starts, now, alert, lastRun,
                 processed, restarts, fftCall, shown>>

\* _unsubscribe, lines 126-138, and a setTimeout of _subscribe
Resubscribe(kind, delay) ==
  /\ starts + restarts < MaxPresses
  /\ listeners' = listeners \ subscription
  /\ subscription' = null
  /\ timers' = timers \cup {[kind |-> kind, id |-> UiListener, due |-> now + delay]}
  /\ restarts' = restarts + 1
  /\ UNCHANGED <<isRecording, recordedData, recordingTime, fftResults,
                 isProcessing, debugInfo, recordingRef, dataCollectionRef,
                 startTimeRef, starts, now, alert, lastRun, processed,
                 fftCall, shown>>

\* the button "Restart Accelerometer", lines 544-553 (disabled while recording)
RestartAccelerometer ==
  /\ ~isRecording
  /\ Resubscribe("restart", 100)

\* changeUpdateInterval, lines 424-434 (its buttons are disabled while
\* recording); without a subscription it only stores the interval
ChangeUpdateInterval ==
  /\ ~isRecording
  /\ subscription # null
  /\ Resubscribe("interval", 10)

\* _subscribe run by a timer, lines 77-124: its _unsubscribe removes the
\* subscription of the render of the press, which the press removed already;
\* the new listener is one of _subscribe
ResubscribeTimerFires(t) ==
  /\ t \in timers /\ t.kind \in {"restart", "interval"} /\ now >= t.due
  /\ listeners' = listeners \cup {UiListener}
  /\ subscription' = Some(UiListener)
  /\ debugInfo' = IF t.kind = "restart"
                  THEN "Restarted accelerometer subscription"
                  ELSE "Subscribed to accelerometer"
  /\ timers' = timers \ {t}
  /\ UNCHANGED <<isRecording, recordedData, recordingTime, fftResults,
                 isProcessing, recordingRef, dataCollectionRef, startTimeRef,
                 starts, now, alert, lastRun, processed, restarts, fftCall,
                 shown>>

\* what the registered listeners push for one reading: the listener of
\* _subscribe (lines 87-110) was created when isRecording was false and pushes
\* nothing; each listener of startRecording (lines 167-180) pushes the reading
RECURSIVE Pushed(_, _, _)
Pushed(ls, r, t) ==
  IF ls = {} THEN <<>>
  ELSE LET l == CHOOSE m \in ls : TRUE
       IN  (IF l = UiListener THEN <<>>
            ELSE <<[x |-> r.x, y |-> r.y, z |-> r.z, timestamp |-> t]>>)
           \o Pushed(ls \ {l}, r, t)

\* the sensor delivers a reading to every registered listener
SensorReading(r) ==
  /\ listeners # {}
  /\ Len(dataCollectionRef) + Cardinality(listeners \ {UiListener}) <= MaxSamples
  /\ dataCollectionRef' = dataCollectionRef \o Pushed(listeners, r, now)
  /\ UNCHANGED <<isRecording, subscription, recordedData, recordingTime,
                 fftResults, isProcessing, debugInfo, recordingRef,
                 startTimeRef, listeners, timers, starts, now, alert, lastRun,
                 processed, restarts, fftCall, shown>>

\* stopRecording, lines 196-227, with the processData call it makes (lines
\* 263-327); fired is the timer whose callback is running, if any;
\* collectedData is the copy of the buffer and run what processData does with it
stopRecording(outcomes, fired) ==
  \E collectedData \in {dataCollectionRef} :
    \E run \in {processData(collectedData, outcomes)} :
      /\ isRecording' = FALSE
      /\ recordingTime' = IF isRecording THEN 0 ELSE recordingTime
      /\ timers' = {t \in timers : ~(t.kind = "stop" /\ t.id \in recordingRef)} \ fired
      /\ recordingRef' = null
      /\ IF Len(collectedData) > 0
         THEN /\ recordedData' = collectedData
              /\ debugInfo' = run.debugInfo
              /\ fftResults' = IF run.published THEN Some(run.fftResults) ELSE fftResults
              /\ isProcessing' = run.setIsProcessing[Len(run.setIsProcessing)]
              /\ processed' = processed + 1
              /\ alert' = alert
              /\ lastRun' = [ran |-> TRUE, recording |-> isRecording,
                             n |-> Len(collectedData),
                             analysed |-> run.analysed, fftCalls |-> run.fftCalls,
                             windowed |-> run.windowed,
                             published |-> run.published,
                             rate |-> IF run.analysed THEN Some(run.rate) ELSE null,
                             failed |-> IF run.analysed
                                        THEN Some({a \in Axes : outcomes[a] = "throw"})
                                        ELSE null]
         ELSE /\ alert' = "No Data Collected"
              /\ lastRun' = [NotRun EXCEPT !.ran = TRUE, !.recording = isRecording]
              /\ UNCHANGED <<recordedData, debugInfo, fftResults, isProcessing,
                             processed>>
      /\ UNCHANGED <<subscription, dataCollectionRef, startTimeRef, listeners,
                     starts, now, restarts, fftCall, shown>>

\* the library's behaviours that a stopRecording of the buffer data can meet:
\* fft is not called when processData is not called or returns at line 268
Outcomes(data) ==
  IF Len(data) = 0 \/ tooFew(data)
  THEN {[a \in Axes |-> "pairs"]}
  ELSE [Axes -> FFTOutcomes]

\* toggleSubscription while recording, lines 416-419
StopPressed ==
  /\ isRecording /\ ~isProcessing
  /\ \E outcomes \in Outcomes(dataCollectionRef) : stopRecording(outcomes, {})

\* a 10 s timer whose callback does nothing
StopTimerLost(t) ==
  /\ t \in timers /\ t.kind = "stop" /\ now >= t.due
  /\ timers' = timers \ {t}
  /\ UNCHANGED <<isRecording, subscription, recordedData, recordingTime,
                 fftResults, isProcessing, debugInfo, recordingRef,
                 dataCollectionRef, startTimeRef, listeners, starts, now,
                 alert, lastRun, processed, restarts, fftCall, shown>>

\* the 10 s timer of line 187
StopTimerFires(t) ==
  /\ t \in timers /\ t.kind = "stop" /\ now >= t.due
  /\ \E outcomes \in Outcomes(dataCollectionRef) : stopRecording(outcomes, {t})

\* the interval of the recording-timer effect, lines 237-251
IntervalTick ==
  /\ isRecording /\ startTimeRef # 0
  /\ IF now - startTimeRef >= 10000
     THEN \E outcomes \in Outcomes(dataCollectionRef) : stopRecording(outcomes, {})
     ELSE /\ recordingTime' = now - startTimeRef
          /\ UNCHANGED <<isRecording, subscription, recordedData, fftResults,
                         isProcessing, debugInfo, recordingRef,
                         dataCollectionRef, startTimeRef, listeners, timers,
                         starts, now, alert, lastRun, processed, restarts,
                         fftCall, shown>>

Next ==
  \/ \E t \in timers : Tick(t)
  \/ StartRecording
  \/ \E t \in timers : SubscribeTimerFires(t)
  \/ RestartAccelerometer
  \/ ChangeUpdateInterval
  \/ \E t \in timers : ResubscribeTimerFires(t)
  \/ \E r \in Delivered : SensorReading(r)
  \/ StopPressed
  \/ \E t \in timers : StopTimerFires(t)
  \/ IntervalTick

Spec == Init /\ [][Next]_vars

\* scheduled timers eventually fire: time reaches the due time of a pending
\* setTimeout, and a setTimeout that is due runs its callback
Fairness ==
  /\ WF_vars(\E t \in timers : Tick(t))
  /\ WF_vars(\E t \in timers : SubscribeTimerFires(t))
  /\ WF_vars(\E t \in timers : ResubscribeTimerFires(t))
  /\ WF_vars(\E t \in timers : StopTimerFires(t))

SpecLive == Spec /\ Fairness

(***************************************************************************)
(* The analysis of one recording.  A recording is under way (started by    *)
(* the first startRecording) and has collected a buffer of n samples, d ms *)
(* apart; then the recording is stopped.                                   *)
(***************************************************************************)
\* the milliseconds between two samples of a drawn recording
Spacings == {0, 10, 100}

\* n samples d ms apart, the first taken when the listener was registered
Recording(n, d, v) ==
  [i \in 1..n |-> [x |-> v[i].x, y |-> v[i].y, z |-> v[i].z,
                   timestamp |-> 1100 + (i - 1) * d]]

\* the state of a recording that has collected buf
InRecording(buf) ==
  /\ isRecording = TRUE
  /\ subscription = Some(1)
  /\ recordedData = <<>>
  /\ recordingTime = 0
  /\ fftResults = null
  /\ isProcessing = FALSE
  /\ debugInfo = "Initializing..."
  /\ recordingRef = Some(1)
  /\ dataCollectionRef = buf
  /\ startTimeRef = 1100
  /\ listeners = {1}
  /\ timers = {[kind |-> "stop", id |-> 1, due |-> 11100]}
  /\ starts = 1
  /\ now = IF buf = <<>> THEN 1100 ELSE buf[Len(buf)].timestamp
  /\ alert = "none"
  /\ lastRun = NotRun
  /\ processed = 0
  /\ restarts = 0
  /\ fftCall = null
  /\ shown = null

InitAnalysis ==
  \/ \E n \in 0..MaxLen : \E d \in Spacings : \E v \in [1..n -> Readings] :
       InRecording(Recording(n, d, v))
  \/ InRecording(Recording(128, 10, [i \in 1..128 |-> [x |-> 1, y |-> 0, z |-> 2]]))

NextAnalysis == StopPressed

SpecAnalysis == InitAnalysis /\ [][NextAnalysis]_vars

(***************************************************************************)
(* performFFT on its own: one call, of a series of 0s and 1s.              *)
(***************************************************************************)
InitFFT ==
  /\ isRecording = FALSE
  /\ subscription = Some(UiListener)
  /\ recordedData = <<>>
  /\ recordingTime = 0
  /\ fftResults = null
  /\ isProcessing = FALSE
  /\ debugInfo = "Initializing..."
  /\ recordingRef = null
  /\ dataCollectionRef = <<>>
  /\ startTimeRef = 0
  /\ listeners = {UiListener}
  /\ timers = {}
  /\ starts = 0
  /\ now = 1000
  /\ alert = "none"
  /\ lastRun = NotRun
  /\ processed = 0
  /\ restarts = 0
  /\ shown = null
  /\ \E n \in 1..MaxLen : \E series \in [1..n -> {0, 1}] : \E o \in FFTOutcomes :
       fftCall = Some([timeData |-> series, outcome |-> o, returned |-> FALSE,
                       padded |-> <<>>, result |-> <<>>])

\* the call runs: lines 336-402
PerformFFT ==
  /\ fftCall # null /\ ~The(fftCall).returned
  /\ fftCall' = Some([The(fftCall) EXCEPT
                        !.returned = TRUE,
                        !.padded = paddedData(The(fftCall).timeData),
                        !.result = performFFT(The(fftCall).timeData,
                                              The(fftCall).outcome)])
  /\ UNCHANGED <<isRecording, subscription, recordedData, recordingTime,
                 fftResults, isProcessing, debugInfo, recordingRef,
                 dataCollectionRef, startTimeRef, listeners, timers, starts,
                 now, alert, lastRun, processed, restarts, shown>>

NextFFT == PerformFFT

SpecFFT == InitFFT /\ [][NextFFT]_vars

(***************************************************************************)
(* The dominant frequencies the screen shows (lines 690-716), either of a  *)
(* result drawn from a bounded set (a published spectrum has 2 entries or  *)
(* more) or of the result of an all-zero recording.                        *)
(***************************************************************************)
MagnitudeValues == {NaN, Infinity, Num(0), Num(1), Num(2)}

\* frequency axes of length M, as processData builds them
FrequencyAxes(M) ==
  {frequencyBins([i \in 1..M |-> Num(0)], rate) : rate \in {Num(8), Infinity}}

InitDominant ==
  \/ \E n \in 4..MaxLen : \E d \in Spacings :
       InRecording(Recording(n, d, [i \in 1..n |-> [x |-> 0, y |-> 0, z |-> 0]]))
  \/ /\ isRecording = FALSE
     /\ subscription = Some(1)
     /\ recordedData = <<>>
     /\ recordingTime = 0
     /\ isProcessing = FALSE
     /\ debugInfo = "Samples, Duration, Rate"
     /\ recordingRef = null
     /\ dataCollectionRef = <<>>
     /\ startTimeRef = 1100
     /\ listeners = {1}
     /\ timers = {}
     /\ starts = 1
     /\ now = 1100
     /\ alert = "none"
     /\ lastRun = NotRun
     /\ processed = 0
     /\ restarts = 0
     /\ fftCall = null
     /\ shown = null
     /\ \E M \in 2..MaxBins : \E m \in [1..M -> MagnitudeValues] :
          \E f \in FrequencyAxes(M) :
            fftResults = Some([a \in Axes |-> [frequencies |-> f, magnitudes |-> m]])

\* the render of the result: getDominantFrequencies per axis, count = 3
Render ==
  /\ fftResults # null /\ shown = null
  /\ shown' = Some([a \in Axes |->
                      getDominantFrequencies(The(fftResults)[a].frequencies,
                                             The(fftResults)[a].magnitudes, 3)])
  /\ UNCHANGED <<isRecording, subscription, recordedData, recordingTime,
                 fftResults, isProcessing, debugInfo, recordingRef,
                 dataCollectionRef, startTimeRef, listeners, timers, starts,
                 now, alert, lastRun, processed, restarts, fftCall>>

NextDominant == StopPressed \/ Render

SpecDominant == InitDominant /\ [][NextDominant]_vars

(***************************************************************************)
(* Properties.                                                             *)
(***************************************************************************)
RECURSIVE IsPow2(_)
IsPow2(p) == p = 1 \/ (p > 1 /\ p % 2 = 0 /\ IsPow2(p \div 2))

\* the power of two P with L <= P < 2 L, for L >= 1
LeastPow2(L) == CHOOSE p \in L..(2 * L) : IsPow2(p) /\ p < 2 * L

Duration(data) == data[Len(data)].timestamp - data[1].timestamp

UniformlySpaced(data, d) ==
  \A i \in 1..(Len(data) - 1) : data[i + 1].timestamp - data[i].timestamp = d

Min(a, b) == IF a < b THEN a ELSE b

\* C1: a stopRecording whose buffer has fewer than 4 samples (0 included)
\* calls performFFT for no axis and publishes no result: fftResults stays null.
C1_SkippedBelowFour ==
  (lastRun.ran /\ lastRun.n < 4) =>
    /\ ~lastRun.analysed
    /\ lastRun.fftCalls = {}
    /\ ~lastRun.published
    /\ fftResults = null

\* processData was called with a buffer of 3 samples
C1_ThreeSamplesStopped ==
  lastRun.ran /\ lastRun.n = 3 /\ Len(recordedData) = 3 /\ ~isRecording

\* C2: when the duration of the recording is <= 0 (with 4 samples or more),
\* processData computes no infinite or NaN rate, calls performFFT for no axis
\* and publishes no result.
C2_DegenerateIsError ==
  (lastRun.ran /\ lastRun.n >= 4 /\ Duration(recordedData) <= 0) =>
    /\ \A r \in lastRun.rate : isFinite(r)
    /\ lastRun.fftCalls = {}
    /\ ~lastRun.published
    /\ fftResults = null

\* C3 as claimed: in a published result freq[i] = i * R / (P * 2), P the padded
\* length of the series and R the sampling rate.
C3_FrequencyOverTwicePadded ==
  \A res \in fftResults : \A r \in lastRun.rate : \A a \in Axes :
    \A i \in DOMAIN res[a].frequencies :
      res[a].frequencies[i] =
        Div(Mul(Num(i - 1), r), Num(2 * LeastPow2(Len(recordedData))))

\* C3 as amended: in a published result, M being the length of the magnitudes
\* of x, every axis has M frequencies and freq[i] = i * R / (2 * M): the
\* rational i * N * 1000 / (duration * 2 * M) for N samples of a positive
\* duration in ms, and NaN (i = 0) or +Infinity (i >= 1) for a duration of 0.
\* 2 * M is the padded length P when the transform of x did not fail.
C3_FrequencyOverTwiceBins ==
  \A res \in fftResults : \A failed \in lastRun.failed :
    LET M == Len(res["x"].magnitudes)
        N == Len(recordedData)
        dur == Duration(recordedData)
    IN  /\ "x" \notin failed => 2 * M = LeastPow2(N)
        /\ \A a \in Axes :
             /\ Len(res[a].frequencies) = M
             /\ \A i \in 1..M :
                  res[a].frequencies[i] =
                    IF dur > 0 THEN Fin((i - 1) * N * 1000, dur * 2 * M)
                    ELSE IF i = 1 THEN NaN ELSE Infinity

\* a result is published for 5 samples 10 ms apart, the transform of x not failing
C3_FiveSamplesPublished ==
  /\ fftResults # null
  /\ Len(recordedData) = 5 /\ Duration(recordedData) = 40
  /\ lastRun.failed = Some({})
  /\ \A res \in fftResults : Len(res["x"].frequencies) = 4

\* C4: in a published result every axis has as many frequencies as magnitudes.
C4_SameLength ==
  \A res \in fftResults : \A a \in Axes :
    Len(res[a].frequencies) = Len(res[a].magnitudes)

\* C5: a performFFT call whose transform fails returns zeros only, as many as
\* the call returns for the same input when the transform succeeds.
C5_FallbackLength ==
  \A c \in fftCall :
    (c.returned /\ c.outcome = "throw") =>
      /\ \A i \in DOMAIN c.result : c.result[i] = Num(0)
      /\ Len(c.result) = Len(performFFT(c.timeData, "pairs"))

\* C6: when the transform fails for exactly one axis a result is published and
\* the two other axes are as in the result of the same buffer with no failure.
C6_FailureIsolated ==
  \A f \in Axes :
    lastRun.failed = Some({f}) =>
      /\ fftResults # null
      /\ \A res \in fftResults : \A a \in Axes \ {f} :
           res[a] = processData(recordedData, [b \in Axes |-> "pairs"]).fftResults[a]

\* the entries at index >= 1 with a finite positive magnitude
ValidCount(mags) ==
  Cardinality({i \in 2..Len(mags) : mags[i].k = "fin" /\ mags[i].n > 0})

\* C7: the dominant frequencies shown for an axis are min(3, valid entries)
\* entries, each one taken from the spectrum (none is a made-up zero entry);
\* an all-zero spectrum gives the empty list.
C7_OnlyValidEntries ==
  \A s \in shown : \A res \in fftResults : \A a \in Axes :
    /\ Len(s[a]) = Min(3, ValidCount(res[a].magnitudes))
    /\ \A i \in DOMAIN s[a] : "index" \in DOMAIN s[a][i]

\* C8: every entry getDominantFrequencies takes from its inputs comes from an
\* index >= 1 (an entry that has no index is the made-up zero entry), the
\* magnitudes of the entries do not increase, and of two entries of equal
\* magnitude the one of the lower index comes first.
C8_SortedWithoutDC ==
  \A s \in shown : \A res \in fftResults : \A a \in Axes :
    LET out == s[a]
        m == res[a].magnitudes
    IN  /\ \A i \in DOMAIN out :
             IF "index" \in DOMAIN out[i]
             THEN /\ out[i].index \in 1..(Len(m) - 1)
                  /\ out[i].magnitude = m[out[i].index + 1]
             ELSE out[i] = [frequency |-> Num(0), magnitude |-> Num(0)]
        /\ \A i \in 1..(Len(out) - 1) :
             /\ Cmp(out[i].magnitude, out[i + 1].magnitude) >= 0
             /\ ("index" \in DOMAIN out[i] /\ out[i].magnitude = out[i + 1].magnitude)
                  => out[i].index < out[i + 1].index

\* the DC magnitude is the largest and two entries of equal magnitude are shown
\* after a larger one that has a higher index
C8_TieShown ==
  \E s \in shown : \E res \in fftResults :
    /\ res["x"].magnitudes[1] = Num(2)
    /\ Len(s["x"]) = 3
    /\ \A i \in 1..3 : "index" \in DOMAIN s["x"][i]
    /\ s["x"][1].index = 3
    /\ s["x"][2].magnitude = s["x"][3].magnitude
    /\ s["x"][2].index = 1
    /\ s["x"][3].index = 2

\* C9: the padded series of a performFFT call of a series of length L >= 1 has
\* a length P that is the power of two with L <= P < 2 L (so P = L when L is a
\* power of two); its first L elements are the series and the others are 0.
C9_PaddedToPowerOfTwo ==
  \A c \in fftCall :
    c.returned =>
      LET L == Len(c.timeData)
          P == Len(c.padded)
      IN  /\ IsPow2(P) /\ P >= L /\ P < 2 * L
          /\ IsPow2(L) => P = L
          /\ \A i \in 1..L : c.padded[i] = c.timeData[i]
          /\ \A i \in (L + 1)..P : c.padded[i] = 0

\* a series of 5 values, not all 0, was padded to 8
C9_FivePaddedToEight ==
  \E c \in fftCall :
    /\ c.returned /\ Len(c.timeData) = 5 /\ c.timeData[5] = 1
    /\ Len(c.padded) = 8

\* C10 as claimed: for samples uniformly spaced d ms apart the sampling rate
\* processData computes is 1000 / d (100 Hz for 128 samples 10 ms apart).
C10_RateIsThousandOverSpacing ==
  \A r \in lastRun.rate : \A d \in Spacings \ {0} :
    UniformlySpaced(recordedData, d) => r = Fin(1000, d)

\* C10 as amended: for N samples uniformly spaced d ms apart the sampling rate
\* is 1000 * N / ((N - 1) * d); for 128 samples 10 ms apart it is 12800 / 127
\* and the padded length is 128 (64 magnitudes for an axis that did not fail).
C10_RateIsCountOverDuration ==
  \A r \in lastRun.rate : \A d \in Spacings \ {0} :
    LET N == Len(recordedData)
    IN  UniformlySpaced(recordedData, d) =>
          /\ r = Fin(1000 * N, (N - 1) * d)
          /\ (N = 128 /\ d = 10) =>
               /\ r = Fin(12800, 127)
               /\ \A res \in fftResults : \A failed \in lastRun.failed :
                    \A a \in Axes \ failed : 2 * Len(res[a].magnitudes) = 128

\* the 128 samples 10 ms apart were analysed
C10_ScenarioAnalysed ==
  /\ lastRun.analysed /\ Len(recordedData) = 128
  /\ UniformlySpaced(recordedData, 10)
  /\ recordedData[128].timestamp - recordedData[1].timestamp = 1270
  /\ fftResults # null

\* C11: processData runs at most once between one startRecording and the
\* next, and a stopRecording that calls it (its buffer is not empty) runs
\* while the recording is under way, never after it was stopped.
C11_OncePerRecording ==
  /\ processed <= 1
  /\ (lastRun.ran /\ lastRun.n > 0) => lastRun.recording

\* C12: startRecording leaves the buffer empty, and a step appends to the
\* buffer only while a recording is under way (isRecording).
C12_AppendedOnlyWhileRecording ==
  [][/\ (starts' # starts) => dataCollectionRef' = <<>>
     /\ Len(dataCollectionRef') > Len(dataCollectionRef) => isRecording]_vars

\* C13: every applyHannWindow call of a stopRecording has an argument of
\* length 2 or more.
C13_WindowedAtLeastTwo ==
  \A N \in lastRun.windowed : N >= 2

\* a recording of 4 samples was analysed: the window was applied to 4 values
C13_FourSamplesWindowed ==
  lastRun.analysed /\ lastRun.n = 4 /\ lastRun.windowed = {4}

\* C14: once isRecording is true it eventually becomes false.
C14_RecordingEventuallyStops ==
  isRecording ~> ~isRecording

\* a recording was stopped 10 s or more after it began, with no timer left
C14_StoppedAfterTenSeconds ==
  /\ ~isRecording /\ lastRun.ran /\ lastRun.recording
  /\ startTimeRef # 0 /\ now >= startTimeRef + 10000
  /\ timers = {}

\* C15: at most one of the registered listeners appends to the buffer.
C15_OneAppendingListener ==
  Cardinality(listeners \ {UiListener}) <= 1

\* C16: isProcessing is false whenever no processData call is running, so
\* after every processData call that has returned.
C16_NotProcessingAfterReturn ==
  isProcessing = FALSE

\* processData has returned from an analysis in which every transform failed
C16_ReturnedAfterFailures ==
  lastRun.ran /\ lastRun.analysed /\ lastRun.failed = Some(Axes) /\ ~isProcessing

====
